---- MODULE Spec2Model ----
(***************************************************************************)
(* Cerberus middle tier: Lowering (fates.py, AST -> flat IR with scope     *)
(* drops) and the ownership verifier Nemesis (nemesis.py, one linear pass  *)
(* over the IR with a ternary state per local).                            *)
(*                                                                         *)
(* Three specifications:                                                   *)
(*   Spec         - lower_function on a function body that is read one     *)
(*                  statement at a time (twice over, to compare two runs), *)
(*                  followed by check_function on the IR function it       *)
(*                  returned (main.py's pipeline);                         *)
(*   SpecCheck    - check_program / check_function on arbitrary IR         *)
(*                  functions over the IR vocabulary, read one instruction *)
(*                  at a time;                                             *)
(*   SpecReverify - check_function called twice on one stored IR function, *)
(*                  with or without a call on another function between.    *)
(***************************************************************************)
EXTENDS Naturals, Sequences, FiniteSets

\* ------------------------------------------------------------------------
\* Bounds of the model
\* ------------------------------------------------------------------------

\* Statements (bindings, returns, nested blocks) in one function body.
MaxStmts == 4

\* Block nesting depth, the function body counted as depth 1.
MaxDepth == 3

\* Instructions of an IR function handed directly to check_function.
MaxInstrs == 5

\* Surface names of variables in a function body that is lowered.
Names == {"a", "b"}

\* Names in an IR function handed directly to check_function.
IRNames == Names \cup {"c"}

\* No name / no operand.
NONE == "-"

\* ------------------------------------------------------------------------
\* nemesis.py: VarState
\* ------------------------------------------------------------------------

UNINIT == "uninit"
ALIVE == "alive"
MOVED == "moved"

\* ------------------------------------------------------------------------
\* fates.py: the IR instruction vocabulary.  An instruction is a record
\*   op      - the dataclass (IR_OwLiteral, ...)
\*   target  - its target name, NONE when it has none
\*   operand - the operand's class for IR_Assign / IR_Return
\*   source  - IR_MvVar.source, or the name of an IRVarRef operand
\* Literal values and type tags play no part in lowering's or the
\* verifier's decisions and are left out.
\* ------------------------------------------------------------------------

IR_OwLiteral(t) == [op |-> "IR_OwLiteral", target |-> t, operand |-> "IRLiteral", source |-> NONE]

IR_MvVar(t, s) == [op |-> "IR_MvVar", target |-> t, operand |-> NONE, source |-> s]

IR_Assign(t, kind, s) == [op |-> "IR_Assign", target |-> t, operand |-> kind, source |-> s]

IR_Return(kind, s) == [op |-> "IR_Return", target |-> NONE, operand |-> kind, source |-> s]

IR_Drop(t) == [op |-> "IR_Drop", target |-> t, operand |-> NONE, source |-> NONE]

IR_BlockStart == [op |-> "IR_BlockStart", target |-> NONE, operand |-> NONE, source |-> NONE]

IR_BlockEnd == [op |-> "IR_BlockEnd", target |-> NONE, operand |-> NONE, source |-> NONE]

\* The operands an IR_Assign / IR_Return can carry: a literal or a variable
\* reference.
IROperand == {<<"IRLiteral", NONE>>} \cup {<<"IRVarRef", n>> : n \in IRNames}

\* ------------------------------------------------------------------------
\* Python dict / list helpers
\* ------------------------------------------------------------------------

\* d[k] = v on a dict (adds the key when it is absent).
DictSet(d, k, v) == [x \in (DOMAIN d) \cup {k} |-> IF x = k THEN v ELSE d[x]]

\* The elements of a list.
Range(s) == {s[i] : i \in DOMAIN s}

\* ------------------------------------------------------------------------
\* nemesis.py: CheckContext.  raised is the exception that ended the check
\* ("none" while none has been raised), message the kind of its message.
\* ------------------------------------------------------------------------

CheckContext(locals) ==
    [var_states |-> [n \in Range(locals) |-> UNINIT],
     move_count |-> [n \in Range(locals) |-> 0],
     raised |-> "none",
     message |-> NONE]

\* dict.get(var) == state: false for a name that is no key.
is_alive(ctx, var) == var \in DOMAIN ctx.var_states /\ ctx.var_states[var] = ALIVE

is_moved(ctx, var) == var \in DOMAIN ctx.var_states /\ ctx.var_states[var] = MOVED

is_uninit(ctx, var) == var \in DOMAIN ctx.var_states /\ ctx.var_states[var] = UNINIT

mark_alive(ctx, var) == [ctx EXCEPT !.var_states = DictSet(@, var, ALIVE)]

\* var_states[var] = MOVED is stored first; move_count[var] += 1 raises
\* KeyError for a name that is no key of move_count.
mark_moved(ctx, var) ==
    IF var \in DOMAIN ctx.move_count
    THEN [ctx EXCEPT !.var_states = DictSet(@, var, MOVED),
                     !.move_count = [@ EXCEPT ![var] = @ + 1]]
    ELSE [ctx EXCEPT !.var_states = DictSet(@, var, MOVED),
                     !.raised = "KeyError",
                     !.message = "KeyError"]

get_move_count(ctx, var) == IF var \in DOMAIN ctx.move_count THEN ctx.move_count[var] ELSE 0

\* raise NemesisError(message, ctx.function_name, instr)
NemesisError(ctx, msg) == [ctx EXCEPT !.raised = "NemesisError", !.message = msg]

\* ------------------------------------------------------------------------
\* nemesis.py: the per-instruction checkers
\* ------------------------------------------------------------------------

\* check_ow_literal that refuses a target already moved.
check_ow_literal_refuses_moved(ctx, instr) ==
    IF is_moved(ctx, instr.target)
    THEN NemesisError(ctx, "already moved")
    ELSE mark_alive(ctx, instr.target)

check_ow_literal(ctx, instr) == mark_alive(ctx, instr.target)

\* check_mv_var with the "already moved" test forgotten.
check_mv_var_no_moved_test(ctx, instr) ==
    IF instr.source \notin DOMAIN ctx.var_states
    THEN NemesisError(ctx, "does not exist")
    ELSE IF is_uninit(ctx, instr.source)
    THEN NemesisError(ctx, "not initialized")
    ELSE LET moved == mark_moved(ctx, instr.source)
         IN  IF moved.raised = "none" THEN mark_alive(moved, instr.target) ELSE moved

check_mv_var(ctx, instr) ==
    IF instr.source \notin DOMAIN ctx.var_states
    THEN NemesisError(ctx, "does not exist")
    ELSE IF is_uninit(ctx, instr.source)
    THEN NemesisError(ctx, "not initialized")
    ELSE IF is_moved(ctx, instr.source)
    THEN NemesisError(ctx, "already moved")
    ELSE LET moved == mark_moved(ctx, instr.source)
         IN  IF moved.raised = "none" THEN mark_alive(moved, instr.target) ELSE moved

check_assign(ctx, instr) ==
    IF instr.operand = "IRVarRef" /\ is_moved(ctx, instr.source)
    THEN NemesisError(ctx, "use after move")
    ELSE IF instr.operand = "IRVarRef" /\ is_uninit(ctx, instr.source)
    THEN NemesisError(ctx, "use of uninitialized")
    ELSE mark_alive(ctx, instr.target)

\* check_return with the "not initialized" test forgotten.
check_return_no_uninit_test(ctx, instr) ==
    IF instr.operand = "IRVarRef"
    THEN IF is_moved(ctx, instr.source)
         THEN NemesisError(ctx, "return of moved")
         ELSE mark_moved(ctx, instr.source)
    ELSE IF instr.operand = "IRLiteral"
    THEN ctx
    ELSE NemesisError(ctx, "unknown operand type")

check_return(ctx, instr) ==
    IF instr.operand = "IRVarRef"
    THEN IF is_moved(ctx, instr.source)
         THEN NemesisError(ctx, "return of moved")
         ELSE IF is_uninit(ctx, instr.source)
         THEN NemesisError(ctx, "return of uninitialized")
         ELSE mark_moved(ctx, instr.source)
    ELSE IF instr.operand = "IRLiteral"
    THEN ctx
    ELSE NemesisError(ctx, "unknown operand type")

\* The body of check_function's loop: the isinstance dispatch.
check_instr(ctx, instr) ==
    IF instr.op = "IR_OwLiteral" THEN check_ow_literal(ctx, instr)
    ELSE IF instr.op = "IR_MvVar" THEN check_mv_var(ctx, instr)
    ELSE IF instr.op = "IR_Assign" THEN check_assign(ctx, instr)
    ELSE IF instr.op = "IR_Return" THEN check_return(ctx, instr)
    ELSE NemesisError(ctx, "unknown instruction type")

\* ------------------------------------------------------------------------
\* State
\* ------------------------------------------------------------------------

VARIABLES
    phase,        \* "lower", "check", "accepted", "failed", or the exception
                  \* lower_function ended with
    ast,          \* the statements of func.body read so far, flattened
    instrs,       \* lower_function: instrs
    instrs2,      \* instrs of a second run of lower_function on the same
                  \* Function (another process: its sets iterate in an
                  \* order of their own)
    locals_list,  \* lower_function: locals_list
    scope_stack,  \* lower_function: scope_stack (index 1 is the outermost)
    fn_locals,    \* check_function: fn.locals
    ctx,          \* check_function: ctx
    pc,           \* check_function: instructions dispatched so far
    cur,          \* check_function: the instruction dispatched last
    moved_from,   \* history: the sources of the IR_MvVar accepted so far
    verdicts      \* history: how the earlier calls of check_function on the
                  \* function at hand ended

vars == <<phase, ast, instrs, instrs2, locals_list, scope_stack, fn_locals, ctx, pc, cur, moved_from,
         verdicts>>

lowerVars == <<ast, instrs, instrs2, locals_list, scope_stack>>

checkVars == <<fn_locals, ctx, pc, cur, moved_from, verdicts>>

NoInstr == [op |-> NONE, target |-> NONE, operand |-> NONE, source |-> NONE]

\* EnterFunction with the context kept from one call to the next (a
\* module-level context): the names already known keep their state.
EnterFunction_keeps_state(locals) ==
    LET known == DOMAIN ctx.var_states
    IN  [var_states |-> [n \in Range(locals) \cup known |->
                            IF n \in known THEN ctx.var_states[n] ELSE UNINIT],
         move_count |-> [n \in Range(locals) \cup DOMAIN ctx.move_count |->
                            IF n \in DOMAIN ctx.move_count THEN ctx.move_count[n]
                            ELSE 0],
         raised |-> "none",
         message |-> NONE]

\* check_function's first statement: the context of a call is built from
\* the function's own local list.
EnterFunction(locals) == CheckContext(locals)

\* ------------------------------------------------------------------------
\* ast_cerberus.py: the statements of a body, as lowering meets them.  A
\* BlockStmt is an opening token, its statements and a closing token.
\* ------------------------------------------------------------------------

\* value is the class of stmt.value, expr the class of stmt.value.expr and
\* var the name of that expression when it is a VarExpr.
LetOw(n) ==
    [var |-> NONE, stmt |-> "LetStmt", name |-> n, value |-> "OwExpr",
     expr |-> "LiteralExpr"]

LetMv(n, s) ==
    [var |-> s, stmt |-> "LetStmt", name |-> n, value |-> "MvExpr",
     expr |-> "VarExpr"]

ReturnOw ==
    [var |-> NONE, stmt |-> "ReturnStmt", name |-> NONE, value |-> "OwExpr",
     expr |-> "LiteralExpr"]

ReturnMv(s) ==
    [var |-> s, stmt |-> "ReturnStmt", name |-> NONE, value |-> "MvExpr",
     expr |-> "VarExpr"]

BlockOpen ==
    [var |-> NONE, stmt |-> "BlockStmt", name |-> NONE, value |-> "{",
     expr |-> NONE]

BlockClose ==
    [var |-> NONE, stmt |-> "BlockStmt", name |-> NONE, value |-> "}",
     expr |-> NONE]

\* The values no let or return may carry: `ow` on a variable or on any other
\* expression, `mv` on a literal or on any other expression, and a value
\* with no tag at all (a bare literal, a bare variable).
IllFormedValues ==
    {<<"OwExpr", "VarExpr">>, <<"OwExpr", "OwExpr">>,
     <<"MvExpr", "LiteralExpr">>, <<"MvExpr", "MvExpr">>,
     <<"LiteralExpr", NONE>>, <<"VarExpr", NONE>>}

LetIllFormed(n, v) ==
    [var |-> NONE, stmt |-> "LetStmt", name |-> n, value |-> v[1],
     expr |-> v[2]]

ReturnIllFormed(v) ==
    [var |-> NONE, stmt |-> "ReturnStmt", name |-> NONE, value |-> v[1],
     expr |-> v[2]]

\* A statement that is no LetStmt, ReturnStmt or BlockStmt (an expression
\* in statement position).
OtherStmt ==
    [var |-> NONE, stmt |-> "Expr", name |-> NONE, value |-> NONE,
     expr |-> NONE]

\* Number of blocks open when statement k of toks is read.
DepthBefore(toks, k) ==
    Cardinality({i \in 1..(k - 1) : toks[i] = BlockOpen})
        - Cardinality({i \in 1..(k - 1) : toks[i] = BlockClose})

\* Number of blocks of the body that _lower_stmt has entered and not yet
\* left (the depth of its recursion).
OpenBlocks == DepthBefore(ast, Len(ast) + 1)

\* Statements read so far (a block counts once, at its opening; the function
\* body itself is not a statement of the body).
StmtCount == Cardinality({i \in DOMAIN ast : ast[i] # BlockClose}) - 1

\* ------------------------------------------------------------------------
\* fates.py: helpers of _lower_stmt
\* ------------------------------------------------------------------------

\* RegisterLocalList with the first-occurrence test forgotten.
RegisterLocalList_always_appends(locals, name) == Append(locals, name)

\* register_local: append to locals_list on first occurrence only.
RegisterLocalList(locals, name) ==
    IF name \in Range(locals) THEN locals ELSE Append(locals, name)

\* RegisterLocalScope adding the name to scope_stack[0], the outermost scope.
RegisterLocalScope_outermost(stack, name) ==
    IF stack = <<>> THEN stack
    ELSE [stack EXCEPT ![1] = @ \cup {name}]

\* register_local: scope_stack[-1].add(name) when the stack is not empty.
RegisterLocalScope(stack, name) ==
    IF stack = <<>> THEN stack
    ELSE [stack EXCEPT ![Len(stack)] = @ \cup {name}]

\* for scope_set in scope_stack: if name in scope_set: remove; break
\* The list is iterated from its first element, the outermost open scope.
RetractIndex(stack, name) ==
    LET hits == {i \in DOMAIN stack : name \in stack[i]}
    IN  IF hits = {} THEN 0
        ELSE CHOOSE i \in hits : \A j \in hits : i <= j

Retract(stack, name) ==
    LET i == RetractIndex(stack, name)
    IN  IF i = 0 THEN stack ELSE [stack EXCEPT ![i] = @ \ {name}]

\* All orders in which a set can be iterated.
Orders(S) ==
    {s \in [1..Cardinality(S) -> S] : \A i, j \in DOMAIN s : i # j => s[i] # s[j]}

\* validate_ow_expr: the exception raised for the operand of an `ow`
\* ("none" when it returns).
validate_ow_expr(expr) ==
    IF expr = "VarExpr" THEN "SemanticError"
    ELSE IF expr # "LiteralExpr" THEN "SemanticError"
    ELSE "none"

\* validate_mv_expr: the exception raised for the operand of a `mv`.
validate_mv_expr(expr) ==
    IF expr = "LiteralExpr" THEN "SemanticError"
    ELSE IF expr # "VarExpr" THEN "SemanticError"
    ELSE "none"

\* LetValueError with the last branch dropped: a value with no tag is let
\* through.
LetValueError_untagged_accepted(value, expr) ==
    IF value = "OwExpr"
    THEN IF validate_ow_expr(expr) # "none" THEN validate_ow_expr(expr)
         ELSE IF expr = "LiteralExpr" THEN "none" ELSE "SemanticError"
    ELSE IF value = "MvExpr"
    THEN IF validate_mv_expr(expr) # "none" THEN validate_mv_expr(expr)
         ELSE IF expr = "VarExpr" THEN "none" ELSE "SemanticError"
    ELSE "none"

\* The LetStmt branch of _lower_stmt: the exception raised for a value of
\* class value whose operand is of class expr ("none": an instruction is
\* emitted).
LetValueError(value, expr) ==
    IF value = "OwExpr"
    THEN IF validate_ow_expr(expr) # "none" THEN validate_ow_expr(expr)
         ELSE IF expr = "LiteralExpr" THEN "none" ELSE "SemanticError"
    ELSE IF value = "MvExpr"
    THEN IF validate_mv_expr(expr) # "none" THEN validate_mv_expr(expr)
         ELSE IF expr = "VarExpr" THEN "none" ELSE "SemanticError"
    ELSE "SemanticError"

\* The ReturnStmt branch of _lower_stmt.
ReturnValueError(value, expr) ==
    IF value = "MvExpr"
    THEN IF validate_mv_expr(expr) # "none" THEN validate_mv_expr(expr)
         ELSE IF expr = "VarExpr" THEN "none" ELSE "SemanticError"
    ELSE IF value = "OwExpr"
    THEN IF validate_ow_expr(expr) # "none" THEN validate_ow_expr(expr)
         ELSE IF expr = "LiteralExpr" THEN "none" ELSE "SemanticError"
    ELSE "SemanticError"

\* The last branch of _lower_stmt: the exception raised for a statement that
\* is no LetStmt, ReturnStmt or BlockStmt.
UnsupportedStmtError == "NotImplementedError"

\* lower_function's check after _lower_stmt(func.body) returned.
ScopeStackFault(stack) == IF stack # <<>> THEN "Exception" ELSE "none"

\* ------------------------------------------------------------------------
\* Lowering actions (one per statement shape of _lower_stmt)
\* ------------------------------------------------------------------------

InBlock == phase = "lower" /\ OpenBlocks > 0 /\ StmtCount < MaxStmts

\* Both runs emit the instructions seq.
Emit(seq) == instrs' = instrs \o seq /\ instrs2' = instrs2 \o seq

\* A LetStmt t: register_local, then the value is validated and lowered.
LowerLet(t) ==
    /\ InBlock
    /\ ast' = Append(ast, t)
    /\ locals_list' = RegisterLocalList(locals_list, t.name)
    /\ LET registered == RegisterLocalScope(scope_stack, t.name)
           err == LetValueError(t.value, t.expr)
       IN  IF err = "none"
           THEN /\ Emit(<<IF t.value = "OwExpr" THEN IR_OwLiteral(t.name)
                                               ELSE IR_MvVar(t.name, t.var)>>)
                /\ scope_stack' = IF t.value = "OwExpr" THEN registered
                                  ELSE Retract(registered, t.var)
                /\ phase' = phase
           ELSE /\ Emit(<<>>)
                /\ scope_stack' = registered
                /\ phase' = err
    /\ UNCHANGED checkVars

\* A ReturnStmt t.
LowerRet(t) ==
    /\ InBlock
    /\ ast' = Append(ast, t)
    /\ LET err == ReturnValueError(t.value, t.expr)
       IN  IF err = "none"
           THEN /\ Emit(<<IF t.value = "MvExpr" THEN IR_Return("IRVarRef", t.var)
                                               ELSE IR_Return("IRLiteral", NONE)>>)
                /\ scope_stack' = IF t.value = "MvExpr" THEN Retract(scope_stack, t.var)
                                  ELSE scope_stack
                /\ phase' = phase
           ELSE /\ Emit(<<>>)
                /\ scope_stack' = scope_stack
                /\ phase' = err
    /\ UNCHANGED <<locals_list, checkVars>>

\* let n: T = ow <literal>;
LowerLetOw(n) == LowerLet(LetOw(n))

\* let n: T = mv s;
LowerLetMv(n, s) == LowerLet(LetMv(n, s))

\* let n: T = <a value that is not `ow <literal>` or `mv <variable>`>;
LowerLetIllFormed(n, v) == LowerLet(LetIllFormed(n, v))

\* return mv s;
LowerReturnMv(s) == LowerRet(ReturnMv(s))

\* return ow <literal>;
LowerReturnOw == LowerRet(ReturnOw)

\* return <a value that is not `ow <literal>` or `mv <variable>`>;
LowerReturnIllFormed(v) == LowerRet(ReturnIllFormed(v))

\* A statement of any other class.
LowerOtherStmt ==
    /\ InBlock
    /\ ast' = Append(ast, OtherStmt)
    /\ phase' = UnsupportedStmtError
    /\ UNCHANGED <<instrs, instrs2, locals_list, scope_stack, checkVars>>

\* A BlockStmt is entered: IR_BlockStart, then _lower_block_content pushes
\* a fresh set.  The first block is func.body itself.
LowerBlockEnter ==
    /\ phase = "lower"
    /\ \/ ast = <<>>
       \/ InBlock /\ OpenBlocks < MaxDepth
    /\ ast' = Append(ast, BlockOpen)
    /\ Emit(<<IR_BlockStart>>)
    /\ scope_stack' = Append(scope_stack, {})
    /\ UNCHANGED <<phase, locals_list, checkVars>>

\* One IR_Drop per name, in the order the set was iterated.
Drops(order) == [i \in DOMAIN order |-> IR_Drop(order[i])]

\* LowerBlockExit with the closing IR_BlockEnd forgotten.
LowerBlockExit_no_block_end ==
    /\ phase = "lower"
    /\ OpenBlocks > 0
    /\ \E order \in Orders(scope_stack[Len(scope_stack)]) :
          instrs' = instrs \o Drops(order)
    /\ \E order \in Orders(scope_stack[Len(scope_stack)]) :
          instrs2' = instrs2 \o Drops(order)
    /\ ast' = Append(ast, BlockClose)
    /\ scope_stack' = SubSeq(scope_stack, 1, Len(scope_stack) - 1)
    /\ UNCHANGED <<phase, locals_list, checkVars>>

\* LowerBlockExit with scope_stack.pop() forgotten.
LowerBlockExit_no_pop ==
    /\ phase = "lower"
    /\ OpenBlocks > 0
    /\ \E order \in Orders(scope_stack[Len(scope_stack)]) :
          instrs' = instrs \o Drops(order) \o <<IR_BlockEnd>>
    /\ \E order \in Orders(scope_stack[Len(scope_stack)]) :
          instrs2' = instrs2 \o Drops(order) \o <<IR_BlockEnd>>
    /\ ast' = Append(ast, BlockClose)
    /\ scope_stack' = scope_stack
    /\ UNCHANGED <<phase, locals_list, checkVars>>

\* The statements of the innermost open block are exhausted: one IR_Drop
\* per name left in its set (in the set's iteration order), pop,
\* IR_BlockEnd.
LowerBlockExit ==
    /\ phase = "lower"
    /\ OpenBlocks > 0
    /\ \E order \in Orders(scope_stack[Len(scope_stack)]) :
          instrs' = instrs \o Drops(order) \o <<IR_BlockEnd>>
    /\ \E order \in Orders(scope_stack[Len(scope_stack)]) :
          instrs2' = instrs2 \o Drops(order) \o <<IR_BlockEnd>>
    /\ ast' = Append(ast, BlockClose)
    /\ scope_stack' = SubSeq(scope_stack, 1, Len(scope_stack) - 1)
    /\ UNCHANGED <<phase, locals_list, checkVars>>

\* _lower_stmt(func.body) has returned.
BodyLowered == ast # <<>> /\ OpenBlocks = 0

\* lower_function after _lower_stmt(func.body) returned: the sanity check
\* on the scope stack, then the IRFunction is built and (main.py)
\* check_program starts check_function on it.
LowerReturn ==
    /\ phase = "lower"
    /\ BodyLowered
    /\ IF ScopeStackFault(scope_stack) # "none"
       THEN /\ phase' = ScopeStackFault(scope_stack)
            /\ UNCHANGED checkVars
       ELSE /\ phase' = "check"
            /\ fn_locals' = locals_list
            /\ ctx' = EnterFunction(locals_list)
            /\ pc' = 0
            /\ cur' = NoInstr
            /\ moved_from' = {}
            /\ verdicts' = <<>>
    /\ UNCHANGED lowerVars

\* ------------------------------------------------------------------------
\* Verifier actions
\* ------------------------------------------------------------------------

\* Dispatch that notes the failure and goes on to the next instruction.
Dispatch_keeps_going(instr) ==
    /\ phase = "check"
    /\ cur' = instr
    /\ pc' = pc + 1
    /\ ctx' = check_instr(ctx, instr)
    /\ phase' = "check"
    /\ moved_from' = IF instr.op = "IR_MvVar" /\ ctx'.raised = "none"
                      THEN moved_from \cup {instr.source}
                      ELSE moved_from
    /\ UNCHANGED <<fn_locals, verdicts, lowerVars>>

\* One turn of check_function's loop on instruction instr.
Dispatch(instr) ==
    /\ phase = "check"
    /\ cur' = instr
    /\ pc' = pc + 1
    /\ ctx' = check_instr(ctx, instr)
    /\ phase' = IF ctx'.raised = "none" THEN "check" ELSE "failed"
    /\ moved_from' = IF instr.op = "IR_MvVar" /\ ctx'.raised = "none"
                      THEN moved_from \cup {instr.source}
                      ELSE moved_from
    /\ UNCHANGED <<fn_locals, verdicts, lowerVars>>

\* check_function on the lowered function: the next instruction of instrs,
\* or the end of the loop (the function is accepted).
CheckLowered ==
    /\ phase = "check"
    /\ IF pc < Len(instrs)
       THEN Dispatch(instrs[pc + 1])
       ELSE /\ phase' = "accepted"
            /\ UNCHANGED <<lowerVars, checkVars>>

Init ==
    /\ phase = "lower"
    /\ ast = <<>>
    /\ instrs = <<>>
    /\ instrs2 = <<>>
    /\ locals_list = <<>>
    /\ scope_stack = <<>>
    /\ fn_locals = <<>>
    /\ ctx = CheckContext(<<>>)
    /\ pc = 0
    /\ cur = NoInstr
    /\ moved_from = {}
    /\ verdicts = <<>>

Next ==
    \/ \E n \in Names : LowerLetOw(n)
    \/ \E n \in Names, s \in Names : LowerLetMv(n, s)
    \/ \E n \in Names, v \in IllFormedValues : LowerLetIllFormed(n, v)
    \/ \E s \in Names : LowerReturnMv(s)
    \/ LowerReturnOw
    \/ \E v \in IllFormedValues : LowerReturnIllFormed(v)
    \/ LowerOtherStmt
    \/ LowerBlockEnter
    \/ LowerBlockExit
    \/ LowerReturn
    \/ CheckLowered

Spec == Init /\ [][Next]_vars

\* ------------------------------------------------------------------------
\* check_function on an arbitrary IR function, read as the loop reaches
\* each instruction.  fn.locals holds the target of every instruction, as
\* register_local (fates.py) guarantees for every instruction lowering
\* emits; a source or operand is any name, registered or not (lowering
\* emits `mv y` for an undeclared y as it stands).
\* ------------------------------------------------------------------------

LocalsChoices ==
    {<<>>, <<"a">>, <<"b">>, <<"c">>, <<"a", "b">>, <<"a", "c">>, <<"b", "c">>,
     <<"a", "b", "c">>}

Targets == Range(fn_locals)

InitCheck ==
    /\ phase = "check"
    /\ ast = <<>>
    /\ instrs = <<>>
    /\ instrs2 = <<>>
    /\ locals_list = <<>>
    /\ scope_stack = <<>>
    /\ fn_locals \in LocalsChoices
    /\ ctx = CheckContext(fn_locals)
    /\ pc = 0
    /\ cur = NoInstr
    /\ moved_from = {}
    /\ verdicts = <<>>

More == pc < MaxInstrs

CheckOwLiteral == \E t \in Targets : More /\ Dispatch(IR_OwLiteral(t))

CheckMvVar == \E t \in Targets, s \in IRNames : More /\ Dispatch(IR_MvVar(t, s))

CheckAssign == \E t \in Targets, o \in IROperand : More /\ Dispatch(IR_Assign(t, o[1], o[2]))

CheckReturn == \E o \in IROperand : More /\ Dispatch(IR_Return(o[1], o[2]))

CheckDrop == \E t \in Targets : More /\ Dispatch(IR_Drop(t))

CheckBlockStart == More /\ Dispatch(IR_BlockStart)

CheckBlockEnd == More /\ Dispatch(IR_BlockEnd)

\* The loop ran off the end of fn.instrs: check_function returns.
CheckEnd ==
    /\ phase = "check"
    /\ phase' = "accepted"
    /\ UNCHANGED <<lowerVars, checkVars>>

\* check_program: check_function returned, the loop goes on to the next
\* function of the program.
CheckNextFunction ==
    /\ phase = "accepted"
    /\ phase' = "check"
    /\ fn_locals' \in LocalsChoices
    /\ ctx' = EnterFunction(fn_locals')
    /\ pc' = 0
    /\ cur' = NoInstr
    /\ moved_from' = {}
    /\ UNCHANGED <<verdicts, lowerVars>>

NextCheck ==
    \/ CheckOwLiteral
    \/ CheckMvVar
    \/ CheckAssign
    \/ CheckReturn
    \/ CheckDrop
    \/ CheckBlockStart
    \/ CheckBlockEnd
    \/ CheckEnd
    \/ CheckNextFunction

SpecCheck == InitCheck /\ [][NextCheck]_vars

\* ------------------------------------------------------------------------
\* check_function called again on an IR function it has already checked,
\* with or without a call on another function in between.  The function is
\* held whole in fn_locals and instrs.
\* ------------------------------------------------------------------------

\* Instructions of the IR function that is checked twice.
MaxFnInstrs == 2

StoredLocalsChoices == {<<>>, <<"a">>, <<"a", "b">>}

\* The instructions a function with local list locals can hold.
FnInstrs(locals) ==
    {IR_OwLiteral(t) : t \in Range(locals)}
        \cup {IR_MvVar(t, s) : t \in Range(locals), s \in IRNames}
        \cup {IR_Assign(t, o[1], o[2]) : t \in Range(locals), o \in IROperand}
        \cup {IR_Return(o[1], o[2]) : o \in IROperand}
        \cup {IR_Drop(t) : t \in Range(locals)}
        \cup {IR_BlockStart, IR_BlockEnd}

FnBodies(locals) == UNION {[1..n -> FnInstrs(locals)] : n \in 0..MaxFnInstrs}

\* The functions check_function may be called on in between: one that is
\* accepted and leaves c alive, one that is accepted and leaves a moved, one
\* that is refused.
OtherFunctions ==
    {[locals |-> <<"c">>, instrs |-> <<IR_OwLiteral("c")>>],
     [locals |-> <<"a", "b">>, instrs |-> <<IR_OwLiteral("a"), IR_MvVar("b", "a")>>],
     [locals |-> <<"a">>, instrs |-> <<IR_Return("IRVarRef", "a")>>]}

\* check_function's loop from context c over the instructions seq.
RECURSIVE RunCheck(_, _)
RunCheck(c, seq) ==
    IF seq = <<>> \/ c.raised # "none" THEN c
    ELSE RunCheck(check_instr(c, Head(seq)), Tail(seq))

\* check_function(fn) as a whole: the context it ends with.
check_function(fn) == RunCheck(EnterFunction(fn.locals), fn.instrs)

\* How a call of check_function ended, given its last context.
VerdictOf(c) ==
    [raised |-> c.raised,
     message |-> c.message,
     phase |-> IF c.raised = "none" THEN "accepted" ELSE "failed"]

InitReverify ==
    /\ phase = "check"
    /\ ast = <<>>
    /\ instrs2 = <<>>
    /\ locals_list = <<>>
    /\ scope_stack = <<>>
    /\ fn_locals \in StoredLocalsChoices
    /\ instrs \in FnBodies(fn_locals)
    /\ ctx = CheckContext(fn_locals)
    /\ pc = 0
    /\ cur = NoInstr
    /\ moved_from = {}
    /\ verdicts = <<>>

\* The call on the function has returned or raised; check_function is
\* called on another function.  "idle": no call on the stored function is
\* under way.
CheckOtherFunction ==
    /\ phase \in {"accepted", "failed"}
    /\ verdicts = <<>>
    /\ \E g \in OtherFunctions :
          /\ ctx' = check_function(g)
          /\ verdicts' = <<VerdictOf(ctx), VerdictOf(ctx')>>
    /\ phase' = "idle"
    /\ UNCHANGED <<fn_locals, pc, cur, moved_from, lowerVars>>

\* check_function is called on the stored function a second time.
VerifyAgain ==
    /\ \/ phase \in {"accepted", "failed"} /\ verdicts = <<>>
       \/ phase = "idle"
    /\ verdicts' = IF verdicts = <<>> THEN <<VerdictOf(ctx)>> ELSE verdicts
    /\ phase' = "check"
    /\ ctx' = EnterFunction(fn_locals)
    /\ pc' = 0
    /\ cur' = NoInstr
    /\ moved_from' = {}
    /\ UNCHANGED <<fn_locals, lowerVars>>

NextReverify ==
    \/ CheckLowered
    \/ CheckOtherFunction
    \/ VerifyAgain

SpecReverify == InitReverify /\ [][NextReverify]_vars

\* ------------------------------------------------------------------------
\* Properties of the verifier (checked under SpecCheck)
\* ------------------------------------------------------------------------

\* This step dispatched one instruction (cur' is that instruction, ctx the
\* context before it and ctx' the context after it).
Dispatched(op) == pc' = pc + 1 /\ cur'.op = op

\* The dispatched instruction was accepted.
Accepted == ctx'.raised = "none"

\* Instruction i reads variable s: as IR_MvVar source, or as the variable
\* operand of an IR_Assign or IR_Return.
Reads(i, s) ==
    \/ i.op = "IR_MvVar" /\ i.source = s
    \/ i.op \in {"IR_Assign", "IR_Return"} /\ i.operand = "IRVarRef" /\ i.source = s

\* The state of every name other than those in `except` is the same before
\* and after the step.
OthersUnchanged(except) ==
    \A n \in IRNames \ except :
        /\ n \in DOMAIN ctx'.var_states <=> n \in DOMAIN ctx.var_states
        /\ n \in DOMAIN ctx.var_states => ctx'.var_states[n] = ctx.var_states[n]

\* C1: during check_function, a local that is moved never becomes alive
\* again, and no local's move_count exceeds 1.
C1_MovedIsFinal ==
    [][\A n \in IRNames :
          /\ is_moved(ctx, n) => ~is_alive(ctx', n)
          /\ get_move_count(ctx', n) <= 1]_vars

\* C2: after an accepted MoveVar(target, source) the target is alive and the
\* source is moved (also when they are the same name), and every later
\* instruction that reads the source of an accepted MoveVar is rejected.
C2_MoveConsumesSource ==
    [][pc' = pc + 1 =>
          /\ (cur'.op = "IR_MvVar" /\ Accepted) =>
                 (is_alive(ctx', cur'.target) /\ is_moved(ctx', cur'.source))
          /\ \A s \in moved_from : Reads(cur', s) => ~Accepted]_vars

\* C3: check_mv_var accepts MoveVar(target, source) iff source is in the
\* function's locals and alive; it rejects an unknown, uninitialized or moved
\* source; on acceptance every local other than source and target keeps its
\* state.
C3_MvVarAcceptsIffSourceAlive ==
    [][Dispatched("IR_MvVar") =>
          LET s == cur'.source
              t == cur'.target
          IN  /\ Accepted <=> (s \in Range(fn_locals) /\ is_alive(ctx, s))
              /\ (s \notin DOMAIN ctx.var_states \/ is_uninit(ctx, s) \/ is_moved(ctx, s))
                     => ctx'.raised = "NemesisError"
              /\ Accepted => OthersUnchanged({s, t})]_vars

\* C3 witness: a MoveVar between two different locals was accepted while a
\* third local was alive.
C3_Witness ==
    /\ phase = "check"
    /\ cur.op = "IR_MvVar"
    /\ cur.source # cur.target
    /\ is_moved(ctx, cur.source)
    /\ is_alive(ctx, cur.target)
    /\ \E n \in IRNames \ {cur.source, cur.target} : is_alive(ctx, n)

\* C6: a BlockStart or BlockEnd instruction is accepted, leaves the state of
\* every local unchanged, and checking continues.
C6_BlockBracketsAreNoOps ==
    [][(Dispatched("IR_BlockStart") \/ Dispatched("IR_BlockEnd")) =>
          /\ Accepted
          /\ ctx'.var_states = ctx.var_states
          /\ phase' = "check"]_vars

\* C7: a Drop instruction never causes rejection.
C7_DropAlwaysSucceeds == cur.op = "IR_Drop" => phase # "failed"

C9_AssignOperandMustBeAlive ==
    [][Dispatched("IR_Assign") =>
          LET s == cur'.source
              isVar == cur'.operand = "IRVarRef"
          IN  /\ (isVar /\ Accepted) => is_alive(ctx, s)
              /\ (isVar /\ is_moved(ctx, s)) => ctx'.message = "use after move"
              /\ (isVar /\ is_uninit(ctx, s)) => ctx'.message = "use of uninitialized"
              /\ Accepted => is_alive(ctx', cur'.target)
              /\ (isVar /\ Accepted /\ s \in DOMAIN ctx.var_states) =>
                     (s \in DOMAIN ctx'.var_states /\ ctx'.var_states[s] = ctx.var_states[s])]_vars

\* ------------------------------------------------------------------------
\* Properties of lowering and of the pipeline (checked under Spec)
\* ------------------------------------------------------------------------

\* The four instruction kinds that carry an ownership rule; IR_Drop and the
\* block brackets carry none.
OwnershipInstr(i) == i.op \in {"IR_OwLiteral", "IR_MvVar", "IR_Assign", "IR_Return"}

\* The verifier's state after the ownership rules of the instructions of
\* `seq` were applied in order from context c, up to the first one that is
\* refused.
RECURSIVE StateAfter(_, _)
StateAfter(c, seq) ==
    IF seq = <<>> \/ c.raised # "none" THEN c
    ELSE StateAfter(IF OwnershipInstr(Head(seq)) THEN check_instr(c, Head(seq)) ELSE c,
                    Tail(seq))

\* A block has just been closed by lowering.
JustClosed == phase = "lower" /\ ast # <<>> /\ ast[Len(ast)] = BlockClose

\* The opening token of the block closed by the last token of ast.
ClosedOpen ==
    LET j == Len(ast)
        opens == {i \in 1..(j - 1) : ast[i] = BlockOpen
                                      /\ DepthBefore(ast, i) = DepthBefore(ast, j) - 1}
    IN  CHOOSE i \in opens : \A k \in opens : k <= i

\* The names bound by a let directly in the block just closed.
ClosedDeclared ==
    {ast[k].name : k \in {i \in (ClosedOpen + 1)..(Len(ast) - 1) :
                             /\ ast[i].stmt = "LetStmt"
                             /\ DepthBefore(ast, i) = DepthBefore(ast, ClosedOpen) + 1}}

\* The last instruction before the closing IR_BlockEnd that is no IR_Drop:
\* the end of the instructions of the block's statements.
ClosedBodyEnd ==
    LET body == {k \in 1..(Len(instrs) - 1) : instrs[k].op # "IR_Drop"}
    IN  CHOOSE k \in body : \A m \in body : m <= k

\* The IR_Drop instructions emitted at the exit of the block just closed.
ClosedDrops == SubSeq(instrs, ClosedBodyEnd + 1, Len(instrs) - 1)

\* The verifier's state at the exit of the block just closed.
ClosedState == StateAfter(CheckContext(locals_list), SubSeq(instrs, 1, ClosedBodyEnd))

\* remove `name` from the innermost scope that holds it.
RetractInnermost(stack, name) ==
    LET hits == {i \in DOMAIN stack : name \in stack[i]}
    IN  IF hits = {} THEN stack
        ELSE LET i == CHOOSE h \in hits : \A j \in hits : j <= h
             IN  [stack EXCEPT ![i] = @ \ {name}]

\* Per open block, the names bound in it whose value has not been moved out
\* or returned since, the operand of a mv resolving to the innermost block
\* that binds its name.  In `let n = mv s` the name n is bound before s is
\* resolved when bindFirst holds, after it otherwise.
RECURSIVE Unconsumed(_, _)
Unconsumed(toks, bindFirst) ==
    IF toks = <<>> THEN <<>>
    ELSE LET st == Unconsumed(SubSeq(toks, 1, Len(toks) - 1), bindFirst)
             t == toks[Len(toks)]
             top == Len(st)
         IN  IF t = BlockOpen THEN Append(st, {})
             ELSE IF t = BlockClose THEN SubSeq(st, 1, top - 1)
             ELSE IF t.stmt = "LetStmt" /\ t.value = "OwExpr"
             THEN [st EXCEPT ![top] = @ \cup {t.name}]
             ELSE IF t.stmt = "LetStmt" /\ bindFirst
             THEN RetractInnermost([st EXCEPT ![top] = @ \cup {t.name}], t.var)
             ELSE IF t.stmt = "LetStmt"
             THEN [RetractInnermost(st, t.var) EXCEPT ![top] = @ \cup {t.name}]
             ELSE IF t.value = "MvExpr" THEN RetractInnermost(st, t.var)
             ELSE st

\* The locals of the block just closed that were moved out or returned from
\* within it, names resolved by scope.
ClosedMovedOut(bindFirst) ==
    LET st == Unconsumed(SubSeq(ast, 1, Len(ast) - 1), bindFirst)
    IN  ClosedDeclared \ st[Len(st)]

\* The same, by name alone: the locals of the block just closed that a mv
\* inside the block names.
ClosedMovedOutByName ==
    {n \in ClosedDeclared :
        \E k \in (ClosedOpen + 1)..(Len(ast) - 1) : ast[k].value = "MvExpr" /\ ast[k].var = n}

\* C4: at a block's exit a Drop is emitted for a local declared in that
\* block iff the local is alive there in the verifier's state.
C4_DropIffAlive ==
    (JustClosed /\ ClosedState.raised = "none") =>
        \A n \in ClosedDeclared :
            (\E k \in DOMAIN ClosedDrops : ClosedDrops[k].target = n) <=> is_alive(ClosedState, n)

\* C5: a function body in which every mv / return-mv operand is alive where
\* it is used (and that holds at least one such operand) is accepted by
\* check_function after lower_function.
C5_LoweredThenAccepted ==
    (phase \in {"accepted", "failed"}
        /\ (\E k \in DOMAIN ast : ast[k].value = "MvExpr")
        /\ StateAfter(CheckContext(locals_list), instrs).raised = "none")
    => phase = "accepted"

\* C10: the number of Drops emitted at a block's exit is the number of
\* distinct locals declared directly in the block minus the number of those
\* moved out or returned from within it ("moved out" read by name, or by
\* scope with a binding's own name in or out of scope in its initializer:
\* the count has to agree with one of the readings).
C10_DropCount ==
    JustClosed =>
        Len(ClosedDrops) \in
            {Cardinality(ClosedDeclared) - Cardinality(ClosedMovedOutByName),
             Cardinality(ClosedDeclared) - Cardinality(ClosedMovedOut(TRUE)),
             Cardinality(ClosedDeclared) - Cardinality(ClosedMovedOut(FALSE))}

\* ------------------------------------------------------------------------
\* Properties of lowering and of the verifier's failures
\* ------------------------------------------------------------------------

\* C11: two runs of lower_function on the same function body give the same
\* instruction sequence, the order of the Drops of a block that holds
\* several locals at its exit included (the local list is built by appends
\* alone and is the same in both runs).
C11_LoweringDeterministic == instrs2 = instrs

\* This step lowered one statement: t is that statement.
Lowered(t) == Len(ast') = Len(ast) + 1 /\ ast'[Len(ast')] = t

\* The value of statement t is `ow` on a literal or `mv` on a bare variable.
WellFormedValue(t) ==
    \/ t.value = "OwExpr" /\ t.expr = "LiteralExpr"
    \/ t.value = "MvExpr" /\ t.expr = "VarExpr"

\* The one instruction a well-formed let or return stands for.
InstrOf(t) ==
    IF t.stmt = "ReturnStmt"
    THEN IF t.value = "OwExpr" THEN IR_Return("IRLiteral", NONE)
                               ELSE IR_Return("IRVarRef", t.var)
    ELSE IF t.value = "OwExpr" THEN IR_OwLiteral(t.name)
                               ELSE IR_MvVar(t.name, t.var)

\* The lowering of the last statement read ended lower_function with
\* exception kind.
LoweringRaised(kind) == phase = kind /\ ast # <<>>

\* C12: lowering a let or a return whose value is not `ow <literal>` or
\* `mv <variable>` fails with SemanticError, emits nothing and no IR function
\* comes out of lower_function (nothing follows the failure); lowering a
\* well-formed one succeeds and emits exactly its one instruction.
C12_IllFormedValueIsSemanticError ==
    [][/\ \A t \in {ast'[Len(ast')]} :
            (Lowered(t) /\ t.stmt \in {"LetStmt", "ReturnStmt"}) =>
                IF WellFormedValue(t)
                THEN /\ phase' = "lower"
                     /\ instrs' = Append(instrs, InstrOf(t))
                ELSE /\ phase' = "SemanticError"
                     /\ instrs' = instrs
       /\ phase = "SemanticError" => UNCHANGED vars]_vars

\* C12 witness: inside a nested block, after a binding was lowered, a let
\* with `ow` on a variable ended lowering with SemanticError.
C12_Witness ==
    /\ LoweringRaised("SemanticError")
    /\ ast[Len(ast)].stmt = "LetStmt"
    /\ ast[Len(ast)].value = "OwExpr"
    /\ ast[Len(ast)].expr = "VarExpr"
    /\ Len(scope_stack) = 2
    /\ \E k \in DOMAIN instrs : instrs[k].op = "IR_OwLiteral"

\* Instruction j of the lowered function moves out of a name the function
\* never declares, and no instruction before it breaks an ownership rule.
MovesUndeclared(j) ==
    /\ instrs[j].op = "IR_MvVar"
    /\ instrs[j].source \notin Range(locals_list)
    /\ StateAfter(CheckContext(locals_list), SubSeq(instrs, 1, j - 1)).raised = "none"

\* C13: `let x = mv y` for a y the function never declares is lowered as it
\* stands (MoveVar(x, y) emitted, y not registered), and check_function
\* rejects the function at that MoveVar, reporting a move from a variable
\* that does not exist or is not initialized.
C13_UndeclaredSourceRejectedAtMove ==
    /\ (phase = "lower" /\ ast # <<>> /\ ast[Len(ast)].stmt = "LetStmt"
            /\ ast[Len(ast)].value = "MvExpr"
            /\ ast[Len(ast)].var \notin Range(locals_list))
        => instrs[Len(instrs)] = IR_MvVar(ast[Len(ast)].name, ast[Len(ast)].var)
    /\ phase \in {"accepted", "failed"} =>
        \A j \in DOMAIN instrs :
            MovesUndeclared(j) =>
                /\ phase = "failed"
                /\ pc = j
                /\ cur = instrs[j]
                /\ ctx.raised = "NemesisError"
                /\ ctx.message \in {"does not exist", "not initialized"}

\* The last statement read is neither a binding, a return nor a block.
UnsupportedRead == ast # <<>> /\ ast[Len(ast)] = OtherStmt

\* The exception a let with `ow` on a variable ends lowering with.
WrongOperandError == LetValueError("OwExpr", "VarExpr")

\* C14: lowering a body that holds, at any depth, a statement that is not a
\* binding, a return or a nested block fails with SemanticError, the
\* failure kind of a wrong ow/mv operand.
C14_UnsupportedStmtIsSemanticError ==
    UnsupportedRead => phase = "SemanticError" /\ phase = WrongOperandError

\* The exception an ownership violation is reported with: the one raised
\* for a move out of a local that was never initialized.
OwnershipViolationError ==
    check_mv_var(CheckContext(<<"a">>), IR_MvVar("a", "a")).raised

\* check_function stopped at an instruction it has no branch for.
UnknownInstrRejected == phase = "failed" /\ ~OwnershipInstr(cur)

\* C15: internal-consistency faults are raised under another kind than user
\* errors: an instruction of unknown tag is not refused with the exception
\* of an ownership violation, and a scope stack left non-empty by lowering is
\* not reported with the exception of a wrong ow/mv operand.
C15_InternalFaultsHaveOwnKind ==
    /\ UnknownInstrRejected => ctx.raised # OwnershipViolationError
    /\ ScopeStackFault(<<{}>>) # WrongOperandError

\* The instruction dispatched last is an IR_Assign or IR_Return whose
\* operand is a variable that is not in fn.locals.
ReadsUnregistered ==
    /\ pc > 0
    /\ cur.op \in {"IR_Assign", "IR_Return"}
    /\ cur.operand = "IRVarRef"
    /\ cur.source \notin Range(fn_locals)

\* C16: every failure of check_function is a NemesisError (which carries the
\* function name and the instruction); an IR_Return or IR_Assign whose
\* variable operand is not in the local list fails that way too; no other
\* exception leaves check_function.
C16_EveryFailureIsNemesisError ==
    /\ phase = "failed" => ctx.raised = "NemesisError"
    /\ ReadsUnregistered => phase = "failed" /\ ctx.raised = "NemesisError"

\* C17: check_function takes the instructions in list order and stops at the
\* first one that is refused: an instruction is dispatched only while none
\* before it was refused, the failure reported is that of the instruction
\* just dispatched, nothing is examined after it, and check_program goes on
\* to another function only after check_function returned.
C17_StopsAtFirstViolation ==
    [][/\ pc' = pc + 1 =>
            /\ phase = "check"
            /\ ctx.raised = "none"
            /\ ctx' = check_instr(ctx, cur')
            /\ phase' = "failed" <=> ctx'.raised # "none"
       /\ phase = "failed" => UNCHANGED vars
       /\ (pc' = 0 /\ pc # 0) => phase = "accepted" /\ phase' = "check"]_vars

\* C17 witness: check_function failed at its third instruction, a move out
\* of a local that an earlier, accepted instruction had moved.
C17_Witness ==
    /\ phase = "failed"
    /\ pc = 3
    /\ cur.op = "IR_MvVar"
    /\ ctx.message = "already moved"
    /\ cur.source \in moved_from

\* C18: the verdict of check_function on a function depends on that
\* function's local list and instructions alone: a second call ends as the
\* first did (an accepted function is accepted again), whether or not
\* another function was checked in between, and no call changes the
\* function's local list or instructions.
C18_VerdictIsTheFunctionsOwn ==
    [][/\ fn_locals' = fn_locals
       /\ instrs' = instrs
       /\ (verdicts' # <<>> /\ phase' \in {"accepted", "failed"})
            => VerdictOf(ctx') = verdicts'[1]]_vars

\* C18 witness: a function holding a move was accepted, another function
\* was checked, and the second call on the first function accepted it again.
C18_Witness ==
    /\ phase = "accepted"
    /\ Len(verdicts) = 2
    /\ verdicts[1].phase = "accepted"
    /\ \E k \in DOMAIN instrs : instrs[k].op = "IR_MvVar"

\* Number of IR blocks open before instruction k of the lowered trace.
InstrDepth(k) ==
    Cardinality({i \in 1..(k - 1) : instrs[i] = IR_BlockStart})
        - Cardinality({i \in 1..(k - 1) : instrs[i] = IR_BlockEnd})

\* The n-th smallest element of a set of indices.
Nth(S, n) == CHOOSE i \in S : Cardinality({m \in S : m <= i}) = n

\* The instructions at instrIdx correspond, in order, to the statements at
\* stmtIdx, each one at the nesting depth of its statement.
SameDepths(instrIdx, stmtIdx) ==
    /\ Cardinality(instrIdx) = Cardinality(stmtIdx)
    /\ \A n \in 1..Cardinality(instrIdx) :
          InstrDepth(Nth(instrIdx, n)) = DepthBefore(ast, Nth(stmtIdx, n))

\* C19: in the trace of a function the BlockStart / BlockEnd pairs are
\* balanced and properly nested, and each instruction lies at the nesting
\* depth of the statement it was lowered from: a binding or return at the
\* depth of its statement, a BlockStart / BlockEnd at the depth of the
\* opening / closing of its block, a Drop inside the block it closes.
C19_BlocksBalancedAndNested ==
    /\ \A k \in DOMAIN instrs : instrs[k] = IR_BlockEnd => InstrDepth(k) >= 1
    /\ InstrDepth(Len(instrs) + 1) = DepthBefore(ast, Len(ast) + 1)
    /\ BodyLowered => InstrDepth(Len(instrs) + 1) = 0
    /\ SameDepths({j \in DOMAIN instrs : OwnershipInstr(instrs[j])},
                  {k \in DOMAIN ast : ast[k].stmt \in {"LetStmt", "ReturnStmt"}
                                        /\ WellFormedValue(ast[k])})
    /\ SameDepths({j \in DOMAIN instrs : instrs[j] = IR_BlockStart},
                  {k \in DOMAIN ast : ast[k] = BlockOpen})
    /\ SameDepths({j \in DOMAIN instrs : instrs[j] = IR_BlockEnd},
                  {k \in DOMAIN ast : ast[k] = BlockClose})
    /\ \A j \in DOMAIN instrs :
          instrs[j].op = "IR_Drop" =>
              /\ j < Len(instrs)
              /\ instrs[j + 1].op \in {"IR_Drop", "IR_BlockEnd"}
              /\ InstrDepth(j) >= 1

\* C19 witness: a body was lowered to its end that holds a binding three
\* blocks deep, and a Drop was emitted for it.
C19_Witness ==
    /\ phase = "lower"
    /\ BodyLowered
    /\ \E k \in DOMAIN ast : ast[k].stmt = "LetStmt" /\ DepthBefore(ast, k) = 3
    /\ \E j \in DOMAIN instrs : instrs[j].op = "IR_Drop" /\ InstrDepth(j) = 3

\* C20: when `mv v` is lowered while several open scopes declare v, v is
\* taken out of the innermost of them and the other scopes keep it (in
\* `let n = mv v` the new name n counts as declared in the innermost scope
\* either before or after v is resolved).
C20_MoveRetractsInnermost ==
    [][\A t \in {ast'[Len(ast')]} :
          (Lowered(t) /\ t.value = "MvExpr" /\ WellFormedValue(t)) =>
              scope_stack' \in
                  IF t.stmt = "LetStmt"
                  THEN {RetractInnermost(RegisterLocalScope(scope_stack, t.name), t.var),
                        RegisterLocalScope(RetractInnermost(scope_stack, t.var), t.name)}
                  ELSE {RetractInnermost(scope_stack, t.var)}]_vars

\* ------------------------------------------------------------------------
\* Frame of check_ow_literal; invariants of lowering's scope stack, local
\* list and Drops
\* ------------------------------------------------------------------------

\* C21: check_ow_literal never rejects: after OwLiteral(target) the target is
\* alive whatever its state was, and the state and the move count of every
\* other local are as before.
C21_OwLiteralNeverRejects ==
    [][Dispatched("IR_OwLiteral") =>
          /\ Accepted
          /\ is_alive(ctx', cur'.target)
          /\ OthersUnchanged({cur'.target})
          /\ \A n \in IRNames \ {cur'.target} :
                /\ n \in DOMAIN ctx'.move_count <=> n \in DOMAIN ctx.move_count
                /\ get_move_count(ctx', n) = get_move_count(ctx, n)]_vars

\* C21 witness: OwLiteral(t), MoveVar(b, t), OwLiteral(t): the third
\* instruction found t moved and made it alive; b is alive and was never
\* moved.
C21_Witness ==
    /\ phase = "check"
    /\ pc = 3
    /\ cur.op = "IR_OwLiteral"
    /\ is_alive(ctx, cur.target)
    /\ cur.target \in moved_from
    /\ get_move_count(ctx, cur.target) = 1
    /\ \E b \in IRNames \ {cur.target} :
          is_alive(ctx, b) /\ get_move_count(ctx, b) = 0

\* C22: during lower_function the depth of the scope stack is the number of
\* blocks currently open, the stack is empty once the body has been lowered,
\* and lower_function never ends with the "scope stack not empty" fault.
C22_ScopeStackFollowsBlocks ==
    /\ Len(scope_stack) = OpenBlocks
    /\ BodyLowered => scope_stack = <<>> /\ ScopeStackFault(scope_stack) = "none"
    /\ phase # ScopeStackFault(<<{}>>)

\* C22 witness: a body with a binding three blocks deep was lowered to its
\* end, passed the check on the scope stack and was handed to check_function.
C22_Witness ==
    /\ phase = "check"
    /\ BodyLowered
    /\ \E k \in DOMAIN ast : ast[k].stmt = "LetStmt" /\ DepthBefore(ast, k) = 3
    /\ \E k \in DOMAIN ast : ast[k].value = "MvExpr"

\* The let statements among the statements toks, by position.
LetsOf(toks) == {k \in DOMAIN toks : toks[k].stmt = "LetStmt"}

\* The position of the first let of toks that binds name n.
FirstLet(toks, n) ==
    CHOOSE k \in LetsOf(toks) :
        toks[k].name = n /\ \A j \in LetsOf(toks) : toks[j].name = n => k <= j

\* The list locals holds each name bound by a let of toks once, in the
\* order the names first occur.
FirstOccurrenceOrder(locals, toks) ==
    /\ Range(locals) = {toks[k].name : k \in LetsOf(toks)}
    /\ \A i, j \in DOMAIN locals : i # j => locals[i] # locals[j]
    /\ \A i, j \in DOMAIN locals :
          i < j => FirstLet(toks, locals[i]) < FirstLet(toks, locals[j])

\* C23: after any sequence of lowered statements the local list holds every
\* let-bound name once, in order of first occurrence; and each let adds its
\* name to the set of the innermost open scope and to no other (the name is
\* in that set after the step unless the let's own `mv` operand is that very
\* name, which the same step retracts).
C23_LocalsInFirstOccurrenceOrder ==
    [][/\ FirstOccurrenceOrder(locals_list, ast)
       /\ FirstOccurrenceOrder(locals_list', ast')
       /\ \A t \in {ast'[Len(ast')]} :
             (Lowered(t) /\ t.stmt = "LetStmt") =>
                 /\ Len(scope_stack') = Len(scope_stack)
                 /\ \/ t.name \in scope_stack'[Len(scope_stack')]
                    \/ t.value = "MvExpr" /\ t.var = t.name
                 /\ \A i \in 1..(Len(scope_stack) - 1) :
                       scope_stack'[i] \subseteq scope_stack[i]]_vars

\* C23 witness: b was bound first, then a, then b again in a nested block:
\* the local list is <<b, a>> and the nested block's set holds b.
C23_Witness ==
    /\ phase = "lower"
    /\ locals_list = <<"b", "a">>
    /\ Len(scope_stack) = 2
    /\ "b" \in scope_stack[2]
    /\ "b" \in scope_stack[1]
    /\ ast[Len(ast)].stmt = "LetStmt"
    /\ ast[Len(ast)].name = "b"

\* lower_function returned an IRFunction: the body was lowered to its end
\* and no exception left lower_function.
SuccessfullyLowered == BodyLowered /\ phase \in {"check", "accepted", "failed"}

\* Instruction i gives local x a value again.
Rebinds(i, x) == i.op \in {"IR_OwLiteral", "IR_MvVar"} /\ i.target = x

\* C24: in the trace of a successfully lowered function no MoveVar or Return
\* reads a local after a Drop of that local, unless an OwLiteral or MoveVar
\* with that local as target lies between the two.
C24_NoUseAfterDrop ==
    SuccessfullyLowered =>
        \A i, j \in DOMAIN instrs :
            (i < j /\ instrs[i].op = "IR_Drop" /\ Reads(instrs[j], instrs[i].target)) =>
                \E k \in (i + 1)..(j - 1) : Rebinds(instrs[k], instrs[i].target)

\* The statement that closes the block whose IR_BlockEnd is instruction e:
\* the n-th closing of ast for the n-th IR_BlockEnd of the trace.
CloseOf(e) ==
    Nth({k \in DOMAIN ast : ast[k] = BlockClose},
        Cardinality({m \in 1..e : instrs[m] = IR_BlockEnd}))

\* The opening of the block closed at position c of ast.
OpenOf(c) ==
    LET opens == {i \in 1..(c - 1) : ast[i] = BlockOpen
                                      /\ DepthBefore(ast, i) = DepthBefore(ast, c) - 1}
    IN  CHOOSE i \in opens : \A k \in opens : k <= i

\* The names bound by a let directly in the block opened at o and closed at c.
DeclaredIn(o, c) ==
    {ast[k].name : k \in {i \in (o + 1)..(c - 1) :
                             /\ ast[i].stmt = "LetStmt"
                             /\ DepthBefore(ast, i) = DepthBefore(ast, o) + 1}}

\* Every instruction of the statements before position c of ast lies before
\* instruction j of the trace.
AllEmittedBefore(j, c) ==
    /\ Cardinality({m \in 1..(j - 1) : OwnershipInstr(instrs[m])})
          = Cardinality({k \in 1..(c - 1) : ast[k].stmt \in {"LetStmt", "ReturnStmt"}})
    /\ Cardinality({m \in 1..(j - 1) : instrs[m] = IR_BlockStart})
          = Cardinality({k \in 1..(c - 1) : ast[k] = BlockOpen})
    /\ Cardinality({m \in 1..(j - 1) : instrs[m] = IR_BlockEnd})
          = Cardinality({k \in 1..(c - 1) : ast[k] = BlockClose})

\* C25: in a successfully lowered function every Drop is followed by Drops
\* only and then by the BlockEnd of its block, comes after all instructions
\* of that block's statements, and drops a name that a let binds directly in
\* that block.
C25_DropsCloseTheirBlock ==
    SuccessfullyLowered =>
        \A j \in DOMAIN instrs :
            instrs[j].op = "IR_Drop" =>
                \E e \in (j + 1)..Len(instrs) :
                    /\ instrs[e] = IR_BlockEnd
                    /\ \A m \in (j + 1)..(e - 1) : instrs[m].op = "IR_Drop"
                    /\ AllEmittedBefore(j, CloseOf(e))
                    /\ instrs[j].target \in DeclaredIn(OpenOf(CloseOf(e)), CloseOf(e))

\* C25 witness: a successfully lowered function with a nested block that
\* binds a and an enclosing block that binds b after it; each block ends with
\* the Drop of its own name.
C25_Witness ==
    /\ SuccessfullyLowered
    /\ \E j, k \in DOMAIN instrs :
          /\ j + 1 < k
          /\ instrs[j] = IR_Drop("a")
          /\ instrs[j + 1] = IR_BlockEnd
          /\ instrs[k] = IR_Drop("b")
          /\ InstrDepth(j) = InstrDepth(k) + 1
          /\ \E m \in (j + 2)..(k - 1) : instrs[m] = IR_OwLiteral("b")

====
